---------------------------- MODULE Spec2Model ----------------------------
(***************************************************************************)
(* The record iterator of perffile (records.go): Records.Next reads one    *)
(* record header and payload from the byte source, dispatches on the       *)
(* record type and decodes the payload into the current record.            *)
(*                                                                         *)
(* The byte source is consumed strictly forward, so the bytes it holds at  *)
(* the current position are an input of each Next call: every call draws   *)
(* them from Inputs.  nread is what the call consumed, srEOF that the      *)
(* source has been read to its end.  last keeps the drawn input, so that   *)
(* the properties can relate what was in the stream to what was decoded.   *)
(*                                                                         *)
(* Go values: a uint64 is an integer (the inputs stay below 2^31), an      *)
(* *EventAttr is the index of the attribute in attrs, NilAttr when nil; a  *)
(* slice is [arr, len] (a nil slice and an empty one of capacity 0 are the *)
(* same value).  A panic ends the program: panicked.                       *)
(***************************************************************************)
EXTENDS Integers, Sequences, FiniteSets, TLC

VARIABLES
    attrs,        \* the EventAttr values of the file
    idToAttr,     \* r.f.idToAttr: attribute id -> index in attrs
    idOffset,     \* r.f.idOffset: -1, or the byte offset of the id in a sample
    srEOF,        \* r.sr has been read to its end
    nread,        \* bytes the last Next call consumed from r.sr
    err,          \* r.err
    ret,          \* what the last Next call returned
    Record,       \* r.Record
    recordSample, \* r.recordSample
    recordMmap,   \* r.recordMmap
    panicked,     \* a Next call has panicked
    last          \* the input the last Next call was given

vars == <<attrs, idToAttr, idOffset, srEOF, nread, err, ret, Record,
          recordSample, recordMmap, panicked, last>>

---------------------------------------------------------------------------
(* Bounds of the inputs *)

\* longest call-chain, branch stack, user stack and grouped read block
MaxCount == 2

---------------------------------------------------------------------------
(* Program constants *)

HdrSize == 8
Uint16Mod == 65536

RecordTypeMmap == 1
RecordTypeLost == 2
RecordTypeComm == 3
RecordTypeExit == 4
RecordTypeThrottle == 5
RecordTypeUnthrottle == 6
RecordTypeFork == 7
RecordTypeRead == 8
RecordTypeSample == 9
recordTypeMmap2 == 10

NilAttr == 0

NoErr == [e |-> "nil", id |-> 0]
ErrEOF == [e |-> "EOF", id |-> 0]
ErrUnexpectedEOF == [e |-> "unexpected EOF", id |-> 0]
ErrUnknownAttr(id) == [e |-> "event has unknown eventAttr ID", id |-> id]

NilRecord == [kind |-> "nil"]

---------------------------------------------------------------------------
(* Little-endian integers *)

RECURSIVE LE(_)
\* binary.LittleEndian: the value of a byte sequence
LE(bs) == IF bs = <<>> THEN 0 ELSE Head(bs) + 256 * LE(Tail(bs))

\* int32(binary.LittleEndian.Uint32(bs)): two's complement
LEi32(bs) ==
    IF bs[4] >= 128
    THEN LE(SubSeq(bs, 1, 3)) + 16777216 * (bs[4] - 256)
    ELSE LE(bs)

Min(a, b) == IF a < b THEN a ELSE b

---------------------------------------------------------------------------
(* The byte source *)

\* io.ReadFull (and binary.Read, which reads its 8 bytes with it) of n bytes
\* from a source holding src: the bytes read and the error.
ReadFull(src, n) ==
    [data |-> SubSeq(src, 1, Min(n, Len(src))),
     err  |-> IF Len(src) >= n THEN NoErr
              ELSE IF Len(src) = 0 THEN ErrEOF
              ELSE ErrUnexpectedEOF]

\* recordHeader: Type uint32, Misc uint16, Size uint16
decodeHeader(bs) ==
    [Type |-> LE(SubSeq(bs, 1, 4)),
     Misc |-> LE(SubSeq(bs, 5, 6)),
     Size |-> LE(SubSeq(bs, 7, 8))]

---------------------------------------------------------------------------
(* bufDecoder: a forward cursor over the payload.  Reading past the end    *)
(* panics; a conditional read that is off returns zero and stays.          *)

NewDecoder(buf) == [buf |-> buf, panic |-> FALSE]

\* b.buf = b.buf[n:]
bdSkip(bd, n) ==
    IF bd.panic \/ n < 0 \/ n > Len(bd.buf)
    THEN [buf |-> <<>>, panic |-> TRUE]
    ELSE [buf |-> SubSeq(bd.buf, n + 1, Len(bd.buf)), panic |-> FALSE]

bdSkipIf(bd, cond, n) == IF cond THEN bdSkip(bd, n) ELSE bd

\* the value the next n bytes hold (0 when there are not n bytes: the read
\* panics, which bdSkip records)
bdUint(bd, n) == IF Len(bd.buf) >= n THEN LE(SubSeq(bd.buf, 1, n)) ELSE 0

u64(bd) == bdUint(bd, 8)
u32(bd) == bdUint(bd, 4)
i32(bd) == IF Len(bd.buf) >= 4 THEN LEi32(SubSeq(bd.buf, 1, 4)) ELSE 0
u64If(bd, cond) == IF cond THEN u64(bd) ELSE 0
u32If(bd, cond) == IF cond THEN u32(bd) ELSE 0
i32If(bd, cond) == IF cond THEN i32(bd) ELSE 0

\* bd.u64s(x) for len(x) = n: the n words read
u64s(bd, n) ==
    IF Len(bd.buf) >= 8 * n
    THEN [i \in 1..n |-> LE(SubSeq(bd.buf, 8 * i - 7, 8 * i))]
    ELSE <<>>

\* bd.bytes(x) for len(x) = n
bdBytes(bd, n) == SubSeq(bd.buf, 1, Min(n, Len(bd.buf)))

\* index of the first zero byte, 0 when there is none
FirstZero(bs) ==
    IF \E i \in 1..Len(bs) : bs[i] = 0
    THEN CHOOSE i \in 1..Len(bs) : bs[i] = 0 /\ \A j \in 1..(i - 1) : bs[j] # 0
    ELSE 0

\* bd.cstring(): the bytes before the terminating zero byte
cstring(bd) ==
    IF FirstZero(bd.buf) = 0 THEN bd.buf
    ELSE SubSeq(bd.buf, 1, FirstZero(bd.buf) - 1)

cstringSkip(bd) ==
    IF FirstZero(bd.buf) = 0 THEN bdSkip(bd, Len(bd.buf))
    ELSE bdSkip(bd, FirstZero(bd.buf))

---------------------------------------------------------------------------
(* Slices: arr is the underlying array (its length the capacity), len the  *)
(* length of the slice.                                                    *)

NilSlice == [arr |-> <<>>, len |-> 0]

Elems(s) == SubSeq(s.arr, 1, s.len)

\* resize without the x = x[:n] of its else branch: the old length stays
resizeKeepsLen(s, n, zero) ==
    IF Len(s.arr) < n
    THEN [arr |-> [i \in 1..n |-> zero], len |-> n]
    ELSE s

\* if x == nil || cap(x) < n { x = make(T, n) } else { x = x[:n] }
resize(s, n, zero) ==
    IF Len(s.arr) < n
    THEN [arr |-> [i \in 1..n |-> zero], len |-> n]
    ELSE [arr |-> s.arr, len |-> n]

\* the slice with its elements (not the hidden rest of the array) set to vals
fill(s, vals) ==
    [arr |-> [i \in 1..Len(s.arr) |->
                  IF i <= s.len /\ i <= Len(vals) THEN vals[i] ELSE s.arr[i]],
     len |-> s.len]

---------------------------------------------------------------------------
(* Attribute lookup *)

\* getAttr without the r.err = ... of its failure
getAttrSilent(e, id) ==
    IF id \in DOMAIN idToAttr
    THEN [attr |-> idToAttr[id], err |-> e]
    ELSE [attr |-> NilAttr, err |-> e]

\* getAttr with r.err = e: the attribute, and r.err afterwards
getAttr(e, id) ==
    IF id \in DOMAIN idToAttr
    THEN [attr |-> idToAttr[id], err |-> e]
    ELSE [attr |-> NilAttr, err |-> ErrUnknownAttr(id)]

\* a lookup the code reaches only if the reads before it did not panic
getAttrAt(e, bd, id) ==
    IF bd.panic THEN [attr |-> NilAttr, err |-> e] ELSE getAttr(e, id)

---------------------------------------------------------------------------
(* The fixed-layout records.  The flags decoded from hdr.Misc (Data, Exec, *)
(* CPUMode, ExactIP) are carried as Misc.                                  *)

parseMmap(e, o, bd, hdr, v2) ==
    LET b1 == bdSkip(bd, 4)
        b2 == bdSkip(b1, 4)
        b3 == bdSkip(b2, 8)
        b4 == bdSkip(b3, 8)
        b5 == bdSkip(b4, 8)
        b6 == bdSkipIf(b5, v2, 4)
        b7 == bdSkipIf(b6, v2, 4)
        b8 == bdSkipIf(b7, v2, 8)
        b9 == bdSkipIf(b8, v2, 8)
        b10 == bdSkipIf(b9, v2, 4)
        b11 == bdSkipIf(b10, v2, 4)
        b12 == cstringSkip(b11)
    IN  [rec |-> [kind |-> "Mmap", Misc |-> hdr.Misc,
                  PID |-> i32(bd), TID |-> i32(b1),
                  Addr |-> u64(b2), Len |-> u64(b3), PgOff |-> u64(b4),
                  Major |-> IF v2 THEN u32(b5) ELSE o.Major,
                  Minor |-> IF v2 THEN u32(b6) ELSE o.Minor,
                  Ino |-> IF v2 THEN u64(b7) ELSE o.Ino,
                  InoGeneration |-> IF v2 THEN u64(b8) ELSE o.InoGeneration,
                  Prot |-> IF v2 THEN u32(b9) ELSE o.Prot,
                  Flags |-> IF v2 THEN u32(b10) ELSE o.Flags,
                  Filename |-> cstring(b11)],
         err |-> e, panic |-> b12.panic]

parseLost(e, bd, hdr) ==
    LET b1 == bdSkip(bd, 8)
        g  == getAttrAt(e, b1, u64(bd))
        b2 == bdSkip(b1, 8)
    IN  [rec |-> [kind |-> "Lost", EventAttr |-> g.attr, NumLost |-> u64(b1)],
         err |-> g.err, panic |-> b2.panic]

parseComm(e, bd, hdr) ==
    LET b1 == bdSkip(bd, 4)
        b2 == bdSkip(b1, 4)
        b3 == cstringSkip(b2)
    IN  [rec |-> [kind |-> "Comm", Misc |-> hdr.Misc,
                  PID |-> i32(bd), TID |-> i32(b1), Comm |-> cstring(b2)],
         err |-> e, panic |-> b3.panic]

parseExit(e, bd, hdr) ==
    LET b1 == bdSkip(bd, 4)
        b2 == bdSkip(b1, 4)
        b3 == bdSkip(b2, 4)
        b4 == bdSkip(b3, 4)
        b5 == bdSkip(b4, 8)
    IN  [rec |-> [kind |-> "Exit", PID |-> i32(bd), PPID |-> i32(b1),
                  TID |-> i32(b2), PTID |-> i32(b3), Time |-> u64(b4)],
         err |-> e, panic |-> b5.panic]

\* parseThrottle reading the id before the time, as parseLost does
parseThrottleIdFirst(e, bd, hdr, enable) ==
    LET b1 == bdSkip(bd, 8)
        g  == getAttrAt(e, b1, u64(bd))
        b2 == bdSkip(b1, 8)
        b3 == bdSkip(b2, 8)
    IN  [rec |-> [kind |-> "Throttle", Enable |-> enable, Time |-> u64(b1),
                  EventAttr |-> g.attr, StreamID |-> u64(b2)],
         err |-> g.err, panic |-> b3.panic]

parseThrottle(e, bd, hdr, enable) ==
    LET b1 == bdSkip(bd, 8)
        b2 == bdSkip(b1, 8)
        g  == getAttrAt(e, b2, u64(b1))
        b3 == bdSkip(b2, 8)
    IN  [rec |-> [kind |-> "Throttle", Enable |-> enable, Time |-> u64(bd),
                  EventAttr |-> g.attr, StreamID |-> u64(b2)],
         err |-> g.err, panic |-> b3.panic]

parseFork(e, bd, hdr) ==
    LET b1 == bdSkip(bd, 4)
        b2 == bdSkip(b1, 4)
        b3 == bdSkip(b2, 4)
        b4 == bdSkip(b3, 4)
        b5 == bdSkip(b4, 8)
    IN  [rec |-> [kind |-> "Fork", PID |-> i32(bd), PPID |-> i32(b1),
                  TID |-> i32(b2), PTID |-> i32(b3), Time |-> u64(b4)],
         err |-> e, panic |-> b5.panic]

---------------------------------------------------------------------------
(* The sample record *)

ZeroSampleRead == [Value |-> 0, TimeEnabled |-> 0, TimeRunning |-> 0,
                   EventAttr |-> NilAttr]

ZeroBranchRecord == [From |-> 0, To |-> 0, Flags |-> 0]

\* the zero DataSrc
ZeroDataSrc == [zero |-> TRUE]

\* the zero RecordSample
ZeroSample ==
    [kind |-> "Sample", EventAttr |-> NilAttr, Misc |-> 0,
     IP |-> 0, PID |-> 0, TID |-> 0, Time |-> 0, Addr |-> 0, StreamID |-> 0,
     CPU |-> 0, Res |-> 0, Period |-> 0,
     SampleRead |-> NilSlice, Callchain |-> NilSlice,
     BranchStack |-> NilSlice, RegsABI |-> 0, Regs |-> NilSlice,
     StackUser |-> NilSlice, StackUserDynSize |-> 0,
     Weight |-> 0, DataSrc |-> ZeroDataSrc, Transaction |-> 0, AbortCode |-> 0]

\* the zero RecordMmap
ZeroMmap ==
    [kind |-> "Mmap", Misc |-> 0, PID |-> 0, TID |-> 0, Addr |-> 0, Len |-> 0,
     PgOff |-> 0, Major |-> 0, Minor |-> 0, Ino |-> 0, InoGeneration |-> 0,
     Prot |-> 0, Flags |-> 0, Filename |-> <<>>]

\* a sub-field of the data source word: not applicable when its low bit is set
dataSrcField(x) ==
    IF x % 2 = 1 THEN [na |-> TRUE, v |-> 0] ELSE [na |-> FALSE, v |-> x \div 2]

decodeDataSrc(d) ==
    LET op    == d % 32
        lvl   == (d \div 32) % 16384
        snoop == (d \div 524288) % 32
        lock  == (d \div 16777216) % 4
        dtlb  == (d \div 67108864) % 128
    IN  [Op     |-> dataSrcField(op),
         Miss   |-> IF lvl % 2 = 1 THEN FALSE ELSE (lvl \div 4) % 2 = 1,
         Level  |-> IF lvl % 2 = 1 THEN [na |-> TRUE, v |-> 0]
                    ELSE [na |-> FALSE, v |-> lvl \div 8],
         Snoop  |-> dataSrcField(snoop),
         Locked |-> IF lock % 2 = 1 THEN "NA"
                    ELSE IF (lock \div 2) % 2 = 1 THEN "Locked"
                    ELSE "Unlocked",
         TLB    |-> dataSrcField(dtlb)]

RECURSIVE weight(_)
\* the number of bits set in x
weight(x) == IF x = 0 THEN 0 ELSE (x % 2) + weight(x \div 2)

\* the f&ReadFormat... != 0 tests
HasRF(f, bit) == bit \in f

\* one entry of a read-format block that is not grouped (lines 308-316)
readOne(e, bd, f) ==
    LET b1 == bdSkip(bd, 8)
        b2 == bdSkipIf(b1, HasRF(f, "TotalTimeEnabled"), 8)
        b3 == bdSkipIf(b2, HasRF(f, "TotalTimeRunning"), 8)
        b4 == bdSkipIf(b3, HasRF(f, "ID"), 8)
        g  == IF HasRF(f, "ID") THEN getAttrAt(e, b4, u64(b3))
              ELSE [attr |-> NilAttr, err |-> e]
    IN  [entry |-> [Value       |-> u64(bd),
                    TimeEnabled |-> u64If(b1, HasRF(f, "TotalTimeEnabled")),
                    TimeRunning |-> u64If(b2, HasRF(f, "TotalTimeRunning")),
                    EventAttr   |-> g.attr],
         bd |-> b4, err |-> g.err]

\* a grouped entry read in the order of an entry that is not grouped
readGroupEntryValueFirst(e, bd, f) == readOne(e, bd, f)

\* one entry of a grouped read-format block (lines 319-327)
readGroupEntry(e, bd, f) ==
    LET b1 == bdSkipIf(bd, HasRF(f, "TotalTimeEnabled"), 8)
        b2 == bdSkipIf(b1, HasRF(f, "TotalTimeRunning"), 8)
        b3 == bdSkip(b2, 8)
        b4 == bdSkipIf(b3, HasRF(f, "ID"), 8)
        g  == IF HasRF(f, "ID") THEN getAttrAt(e, b4, u64(b3))
              ELSE [attr |-> NilAttr, err |-> e]
    IN  [entry |-> [Value       |-> u64(b2),
                    TimeEnabled |-> u64If(bd, HasRF(f, "TotalTimeEnabled")),
                    TimeRunning |-> u64If(b1, HasRF(f, "TotalTimeRunning")),
                    EventAttr   |-> g.attr],
         bd |-> b4, err |-> g.err]

RECURSIVE readGroup(_, _, _, _)
\* the loop over the n entries of a grouped block (line 318)
readGroup(e, bd, f, n) ==
    IF n = 0 \/ bd.panic THEN [entries |-> <<>>, bd |-> bd, err |-> e]
    ELSE LET one  == readGroupEntry(e, bd, f)
             rest == readGroup(one.err, one.bd, f, n - 1)
         IN  [entries |-> <<one.entry>> \o rest.entries,
              bd |-> rest.bd, err |-> rest.err]

\* parseReadFormat with r.err = e and *out = out: the slice, the cursor and
\* r.err afterwards
parseReadFormat(e, bd, f, out) ==
    LET group == HasRF(f, "Group")
        n     == IF group THEN u64(bd) ELSE 1
        b1    == bdSkipIf(bd, group, 8)
        one   == readOne(e, b1, f)
        all   == readGroup(e, b1, f, n)
    IN  IF group
        THEN [out |-> IF all.bd.panic THEN out
                      ELSE fill(resize(out, n, ZeroSampleRead), all.entries),
              bd |-> all.bd, err |-> all.err]
        ELSE [out |-> IF one.bd.panic THEN out
                      ELSE fill(resize(out, 1, ZeroSampleRead), <<one.entry>>),
              bd |-> one.bd, err |-> one.err]

\* the t&SampleFormat... != 0 tests
HasSF(t, bit) == bit \in t

RECURSIVE readBranches(_, _)
\* the loop over the branch stack (lines 250-254): the n records read
readBranches(bd, n) ==
    IF n = 0 \/ Len(bd.buf) < 24 THEN <<>>
    ELSE <<[From  |-> u64(bd),
            To    |-> u64(bdSkip(bd, 8)),
            Flags |-> u64(bdSkip(bd, 16))]>>
         \o readBranches(bdSkip(bd, 24), n - 1)

\* the scalar fields up to the period (lines 212-222)
sampleHead(bd, t) ==
    LET b1  == bdSkipIf(bd, HasSF(t, "Identifier"), 8)
        b2  == bdSkipIf(b1, HasSF(t, "IP"), 8)
        b3  == bdSkipIf(b2, HasSF(t, "TID"), 4)
        b4  == bdSkipIf(b3, HasSF(t, "TID"), 4)
        b5  == bdSkipIf(b4, HasSF(t, "Time"), 8)
        b6  == bdSkipIf(b5, HasSF(t, "Addr"), 8)
        b7  == bdSkipIf(b6, HasSF(t, "ID"), 8)
        b8  == bdSkipIf(b7, HasSF(t, "StreamID"), 8)
        b9  == bdSkipIf(b8, HasSF(t, "CPU"), 4)
        b10 == bdSkipIf(b9, HasSF(t, "CPU"), 4)
        b11 == bdSkipIf(b10, HasSF(t, "Period"), 8)
    IN  [IP       |-> u64If(b1, HasSF(t, "IP")),
         PID      |-> i32If(b2, HasSF(t, "TID")),
         TID      |-> i32If(b3, HasSF(t, "TID")),
         Time     |-> u64If(b4, HasSF(t, "Time")),
         Addr     |-> u64If(b5, HasSF(t, "Addr")),
         StreamID |-> u64If(b7, HasSF(t, "StreamID")),
         CPU      |-> u32If(b8, HasSF(t, "CPU")),
         Res      |-> u32If(b9, HasSF(t, "CPU")),
         Period   |-> u64If(b10, HasSF(t, "Period")),
         bd       |-> b11]

\* the call-chain (lines 228-238)
sampleCallchain(bd, t, old) ==
    LET n  == u64(bd)
        b1 == bdSkip(bd, 8)
        b2 == bdSkip(b1, 8 * n)
    IN  IF ~HasSF(t, "Callchain") THEN [out |-> NilSlice, bd |-> bd]
        ELSE IF b2.panic THEN [out |-> old, bd |-> b2]
        ELSE [out |-> fill(resize(old, n, 0), u64s(b1, n)), bd |-> b2]

\* the raw data, skipped (lines 240-241)
sampleRaw(bd, t) ==
    bdSkip(bdSkipIf(bd, HasSF(t, "Raw"), 4), u32If(bd, HasSF(t, "Raw")))

\* the branch stack (lines 243-255)
sampleBranchStack(bd, t, old) ==
    LET n  == u64(bd)
        b1 == bdSkip(bd, 8)
        b2 == bdSkip(b1, 24 * n)
    IN  IF ~HasSF(t, "BranchStack") THEN [out |-> old, bd |-> bd]
        ELSE IF b2.panic THEN [out |-> old, bd |-> b2]
        ELSE [out |-> fill(resize(old, n, ZeroBranchRecord),
                           readBranches(b1, n)),
              bd |-> b2]

\* the user registers (lines 257-266)
sampleRegs(bd, t, mask, oldABI, old) ==
    LET n  == weight(mask)
        b1 == bdSkip(bd, 8)
        b2 == bdSkip(b1, 8 * n)
    IN  IF ~HasSF(t, "RegsUser") THEN [abi |-> oldABI, out |-> old, bd |-> bd]
        ELSE IF b2.panic THEN [abi |-> oldABI, out |-> old, bd |-> b2]
        ELSE [abi |-> u64(bd), out |-> fill(resize(old, n, 0), u64s(b1, n)),
              bd |-> b2]

\* the user stack (lines 268-280)
sampleStackUser(bd, t, old) ==
    LET n  == u64(bd)
        b1 == bdSkip(bd, 8)
        b2 == bdSkip(b1, n)
        b3 == bdSkip(b2, 8)
    IN  IF ~HasSF(t, "StackUser")
        THEN [out |-> NilSlice, dyn |-> 0, bd |-> bd]
        ELSE IF b3.panic THEN [out |-> old, dyn |-> 0, bd |-> b3]
        ELSE [out |-> fill(resize(old, n, 0), bdBytes(b1, n)),
              dyn |-> u64(b2), bd |-> b3]

\* parseSample with r.err = e and r.recordSample = o.  nil: the record
\* returned is nil, and o is as it was.
parseSample(e, o, bd, hdr) ==
    LET attr == IF idOffset = -1 THEN 0
                ELSE u64(bdSkip(bd, idOffset))
        idPanic == idOffset # -1 /\ bdSkip(bdSkip(bd, idOffset), 8).panic
        g   == getAttr(e, attr)
        ea  == attrs[g.attr]
        t   == ea.SampleFormat
        hd  == sampleHead(bd, t)
        rd  == IF HasSF(t, "Read")
               THEN parseReadFormat(e, hd.bd, ea.ReadFormat, o.SampleRead)
               ELSE [out |-> o.SampleRead, bd |-> hd.bd, err |-> e]
        cc  == sampleCallchain(rd.bd, t, o.Callchain)
        raw == sampleRaw(cc.bd, t)
        bs  == sampleBranchStack(raw, t, o.BranchStack)
        rg  == sampleRegs(bs.bd, t, ea.SampleRegsUser, o.RegsABI, o.Regs)
        su  == sampleStackUser(rg.bd, t, o.StackUser)
        b1  == bdSkipIf(su.bd, HasSF(t, "Weight"), 8)
        b2  == bdSkipIf(b1, HasSF(t, "DataSrc"), 8)
        b3  == bdSkipIf(b2, HasSF(t, "Transaction"), 8)
        transaction == u64If(b2, HasSF(t, "Transaction"))
    IN  IF idPanic THEN [rec |-> o, nil |-> TRUE, err |-> e, panic |-> TRUE]
        ELSE IF g.attr = NilAttr
        THEN [rec |-> o, nil |-> TRUE, err |-> g.err, panic |-> FALSE]
        ELSE [rec |->
                [kind |-> "Sample", EventAttr |-> g.attr, Misc |-> hdr.Misc,
                 IP |-> hd.IP, PID |-> hd.PID, TID |-> hd.TID,
                 Time |-> hd.Time, Addr |-> hd.Addr,
                 StreamID |-> hd.StreamID, CPU |-> hd.CPU, Res |-> hd.Res,
                 Period |-> hd.Period,
                 SampleRead |-> rd.out,
                 Callchain |-> cc.out,
                 BranchStack |-> bs.out,
                 RegsABI |-> rg.abi, Regs |-> rg.out,
                 StackUser |-> su.out, StackUserDynSize |-> su.dyn,
                 Weight |-> u64If(su.bd, HasSF(t, "Weight")),
                 DataSrc |-> IF HasSF(t, "DataSrc")
                             THEN decodeDataSrc(u64(b1)) ELSE o.DataSrc,
                 Transaction |-> (transaction % 65536)
                                 + 65536 * ((transaction \div 65536) % 65536),
                 AbortCode |-> (transaction \div 65536) \div 65536],
              nil |-> FALSE, err |-> rd.err, panic |-> b3.panic]

---------------------------------------------------------------------------
(* The inputs: what the byte source holds where a Next call starts to read *)

SampleFormats ==
    {"Identifier", "IP", "TID", "Time", "Addr", "ID", "StreamID", "CPU",
     "Period", "Read", "Callchain", "Raw", "BranchStack", "RegsUser",
     "StackUser", "Weight", "DataSrc", "Transaction"}

ReadFormats == {"TotalTimeEnabled", "TotalTimeRunning", "ID", "Group"}

RECURSIVE EncLE(_, _)
\* v in n bytes, little-endian
EncLE(v, n) == IF n = 0 THEN <<>> ELSE <<v % 256>> \o EncLE(v \div 256, n - 1)

EncU64(v) == EncLE(v, 8)
EncU32(v) == EncLE(v, 4)
EncIf(cond, bs) == IF cond THEN bs ELSE <<>>

RECURSIVE Concat(_)
Concat(ss) == IF ss = <<>> THEN <<>> ELSE Head(ss) \o Concat(Tail(ss))

Zeros(n) == [i \in 1..n |-> 0]

EncHeader(type, misc, size) == EncU32(type) \o EncLE(misc, 2) \o EncLE(size, 2)

\* an input: k is its shape; type, misc and size its header; words the
\* payload words of a lost or throttle record; id, n and rids the attribute
\* id, the collection count and the read-format ids of a sample; n also the
\* bytes present of a partial header or after a raw header
Input(k, type, misc, size, words, id, n, rids) ==
    [k |-> k, type |-> type, misc |-> misc, size |-> size, words |-> words,
     id |-> id, n |-> n, rids |-> rids]

NoInput == Input("none", 0, 0, 0, <<>>, 0, 0, <<>>)
EOFInput == Input("eof", 0, 0, 0, <<>>, 0, 0, <<>>)

\* the value a sample input holds in the field with this code
V(in, code) == 256 * (3 * in.id + in.n + 1) + code

\* the read-format block of a sample input, for read format f
EncReadEntry(in, f, i) ==
    IF "Group" \in f
    THEN EncIf("TotalTimeEnabled" \in f, EncU64(V(in, 97 + 3 * i)))
         \o EncIf("TotalTimeRunning" \in f, EncU64(V(in, 98 + 3 * i)))
         \o EncU64(V(in, 96 + 3 * i))
         \o EncIf("ID" \in f, EncU64(in.rids[i]))
    ELSE EncU64(V(in, 96 + 3 * i))
         \o EncIf("TotalTimeEnabled" \in f, EncU64(V(in, 97 + 3 * i)))
         \o EncIf("TotalTimeRunning" \in f, EncU64(V(in, 98 + 3 * i)))
         \o EncIf("ID" \in f, EncU64(in.rids[i]))

EncRead(in, f) ==
    EncIf("Group" \in f, EncU64(Len(in.rids)))
    \o Concat([i \in 1..Len(in.rids) |-> EncReadEntry(in, f, i)])

\* the payload of a sample input laid out for attribute ea
EncSample(in, ea) ==
    LET t == ea.SampleFormat
        n == in.n
    IN  EncIf("Identifier" \in t, EncU64(in.id))
        \o EncIf("IP" \in t, EncU64(V(in, 1)))
        \o EncIf("TID" \in t, EncU32(V(in, 2)) \o EncU32(V(in, 3)))
        \o EncIf("Time" \in t, EncU64(V(in, 4)))
        \o EncIf("Addr" \in t, EncU64(V(in, 5)))
        \o EncIf("ID" \in t, EncU64(in.id))
        \o EncIf("StreamID" \in t, EncU64(V(in, 6)))
        \o EncIf("CPU" \in t, EncU32(V(in, 7)) \o EncU32(V(in, 8)))
        \o EncIf("Period" \in t, EncU64(V(in, 9)))
        \o EncIf("Read" \in t, EncRead(in, ea.ReadFormat))
        \o EncIf("Callchain" \in t,
                 EncU64(n) \o Concat([i \in 1..n |-> EncU64(V(in, 32 + i))]))
        \o EncIf("Raw" \in t, EncU32(n) \o [i \in 1..n |-> 255])
        \o EncIf("BranchStack" \in t,
                 EncU64(n) \o Concat([i \in 1..n |->
                     EncU64(V(in, 64 + 3 * i)) \o EncU64(V(in, 65 + 3 * i))
                     \o EncU64(V(in, 66 + 3 * i))]))
        \o EncIf("RegsUser" \in t,
                 EncU64(V(in, 13))
                 \o Concat([i \in 1..weight(ea.SampleRegsUser) |->
                               EncU64(V(in, 48 + i))]))
        \o EncIf("StackUser" \in t,
                 EncU64(n) \o [i \in 1..n |-> 16 * n + i] \o EncU64(V(in, 14)))
        \o EncIf("Weight" \in t, EncU64(V(in, 10)))
        \o EncIf("DataSrc" \in t, EncU64(V(in, 11)))
        \o EncIf("Transaction" \in t, EncU64(V(in, 12)))

\* the payload of an input that is a whole record
Payload(in) ==
    CASE in.k = "words"  -> Concat([i \in 1..Len(in.words) |-> EncU64(in.words[i])])
      [] in.k = "sample" -> IF in.id \in DOMAIN idToAttr
                            THEN EncSample(in, attrs[idToAttr[in.id]])
                            ELSE EncU64(in.id)
      [] in.k = "mmap"   -> EncU32(11) \o EncU32(12) \o EncU64(13)
                            \o EncU64(14) \o EncU64(15)
                            \o EncIf(in.type = recordTypeMmap2,
                                     EncU32(16) \o EncU32(17) \o EncU64(18)
                                     \o EncU64(19) \o EncU32(20) \o EncU32(21))
                            \o <<47, 97, 0, 0, 0, 0, 0, 0>>
      [] in.k = "comm"   -> EncU32(11) \o EncU32(12) \o <<97, 98, 0, 0, 0, 0, 0, 0>>
      [] in.k = "exit"   -> EncU32(11) \o EncU32(10) \o EncU32(12)
                            \o EncU32(9) \o EncU64(700)
      [] OTHER           -> <<>>

\* the bytes of an input
Encode(in) ==
    CASE in.k = "eof"     -> <<>>
      [] in.k = "partial" -> SubSeq(EncHeader(in.type, in.misc, in.size), 1, in.n)
      [] in.k = "raw"     -> EncHeader(in.type, in.misc, in.size) \o Zeros(in.n)
      [] OTHER            -> EncHeader(in.type, in.misc, HdrSize + Len(Payload(in)))
                             \o Payload(in)

\* sequences over S of length at most n
SeqsUpTo(S, n) == UNION {[1..k -> S] : k \in 0..n}

\* the read-format ids of a sample input with n entries in its collections:
\* id 1 is known, 8 and 9 never are
DefaultRids(ea, n) ==
    IF "Read" \notin ea.SampleFormat THEN <<>>
    ELSE IF "Group" \in ea.ReadFormat THEN [i \in 1..n |-> 1]
    ELSE <<1>>

\* the other read-format ids a sample input may hold
RidChoices(ea) ==
    IF "Read" \notin ea.SampleFormat \/ "ID" \notin ea.ReadFormat THEN {}
    ELSE IF "Group" \in ea.ReadFormat
    THEN SeqsUpTo({1, 9}, MaxCount) \cup {<<9, 8>>}
    ELSE {<<9>>}

\* the sample inputs with attribute id id, which the file may not know
SampleInputsOf(id) ==
    IF id \in DOMAIN idToAttr
    THEN LET ea == attrs[idToAttr[id]]
         IN  {Input("sample", RecordTypeSample, 0, 0, <<>>, id, n,
                    DefaultRids(ea, n)) : n \in 0..MaxCount}
             \cup
             {Input("sample", RecordTypeSample, 0, 0, <<>>, id, 0, rids) :
                 rids \in RidChoices(ea)}
    ELSE {Input("sample", RecordTypeSample, 0, 0, <<>>, id, 0, <<>>)}

SampleInputs ==
    UNION {SampleInputsOf(id) : id \in IF idOffset = -1 THEN {0} ELSE {1, 2, 9}}

WordsInputs ==
    {Input("words", RecordTypeLost, 0, 0, w, 0, 0, <<>>) :
        w \in {<<0, 1>>, <<1, 2>>, <<2, 9>>, <<9, 1>>}}
    \cup
    {Input("words", type, 0, 0, w, 0, 0, <<>>) :
        type \in {RecordTypeThrottle, RecordTypeUnthrottle},
        w \in {<<0, 0, 700>>, <<1, 2, 700>>, <<1, 9, 700>>, <<9, 1, 700>>}}

FixedInputs ==
    {Input("mmap", RecordTypeMmap, 0, 0, <<>>, 0, 0, <<>>),
     Input("mmap", recordTypeMmap2, 8192, 0, <<>>, 0, 0, <<>>),
     Input("comm", RecordTypeComm, 8192, 0, <<>>, 0, 0, <<>>),
     Input("exit", RecordTypeExit, 0, 0, <<>>, 0, 0, <<>>),
     Input("exit", RecordTypeFork, 0, 0, <<>>, 0, 0, <<>>)}

\* a whole header of some type and size followed by n zero bytes, n at most
\* the payload the header declares: records of unknown type, records cut
\* short by the end of the source, records whose payload is too short for
\* their layout, and headers whose size is below the header's own
RawInputs ==
    {Input("raw", type, 258, sn[1], <<>>, 0, sn[2], <<>>) :
        type \in {0, RecordTypeLost, RecordTypeRead, RecordTypeSample, 11},
        sn \in {<<0, 0>>, <<7, 16>>, <<8, 0>>, <<16, 0>>, <<16, 8>>,
                <<24, 8>>, <<24, 16>>}}

PartialInputs ==
    {Input("partial", RecordTypeSample, 0, 16, <<>>, 0, n, <<>>) : n \in {1, 4, 7}}

\* the inputs of the specification of the record framing
Inputs ==
    IF srEOF THEN {EOFInput}
    ELSE {EOFInput} \cup PartialInputs \cup RawInputs \cup FixedInputs
         \cup WordsInputs
         \cup {in \in SampleInputs : in.n = 0}

\* the inputs of the specification of the sample decoder
InputsSample ==
    IF srEOF THEN {EOFInput}
    ELSE {EOFInput, Input("raw", RecordTypeRead, 258, 16, <<>>, 0, 8, <<>>)}
         \cup SampleInputs

---------------------------------------------------------------------------
(* The file: its attributes, fixed when the iterator is made *)

EventAttr(t, f, regs) ==
    [SampleFormat |-> t, ReadFormat |-> f, SampleRegsUser |-> regs]

\* read formats of the attribute whose samples carry a read block
ReadFormatChoices ==
    {{}, {"ID"}, {"TotalTimeEnabled"}, {"TotalTimeEnabled", "TotalTimeRunning", "ID"},
     {"Group"}, {"Group", "ID"}, {"Group", "TotalTimeRunning"},
     {"Group", "TotalTimeEnabled", "TotalTimeRunning", "ID"}}

\* sample formats of the second attribute
SampleFormatChoices ==
    {{"Identifier"}, SampleFormats \ {"Read", "BranchStack", "DataSrc"}}

\* a file with one attribute, known by the ids 0 and 1: the samples hold no
\* id and are those of id 0
SingleFiles ==
    {[attrs |-> <<EventAttr(t, f, 37)>>, idToAttr |-> (0 :> 1 @@ 1 :> 1),
      idOffset |-> -1] :
        t \in {{"Period"}, SampleFormats \ {"Identifier", "ID"}},
        f \in {{"Group", "ID"}}}

\* a file with two attributes, ids 1 and 2: every sample starts with its id
MultiFiles ==
    {[attrs |-> <<EventAttr(SampleFormats, f, 37), EventAttr(t, {}, 0)>>,
      idToAttr |-> (1 :> 1 @@ 2 :> 2), idOffset |-> 0] :
        f \in ReadFormatChoices, t \in SampleFormatChoices}

\* the files of the specification of the record framing
FramingFiles ==
    {file \in SingleFiles \cup MultiFiles :
        /\ file.attrs[1].ReadFormat = {"Group", "ID"}
        /\ \/ file.idOffset = -1
           \/ file.attrs[2].SampleFormat = {"Identifier"}}

---------------------------------------------------------------------------
(* The iterator *)

\* the iterator of file.Records(), before its first Next
InitOn(files) ==
    /\ \E file \in files :
          /\ attrs = file.attrs
          /\ idToAttr = file.idToAttr
          /\ idOffset = file.idOffset
    /\ srEOF = FALSE
    /\ nread = 0
    /\ err = NoErr
    /\ ret = FALSE
    /\ Record = NilRecord
    /\ recordSample = ZeroSample
    /\ recordMmap = ZeroMmap
    /\ panicked = FALSE
    /\ last = NoInput

\* Err
Err == err

\* the switch of Next on hdr.Type (lines 83-115): the record, r.err, the
\* two caches afterwards, and whether the decoding panicked
dispatch(e, hdr, bd) ==
    LET keep(out) == [rec |-> out.rec, err |-> out.err, panic |-> out.panic,
                      sample |-> recordSample, mmap |-> recordMmap]
        mm(out)   == [rec |-> out.rec, err |-> out.err, panic |-> out.panic,
                      sample |-> recordSample, mmap |-> out.rec]
        sm(out)   == [rec |-> IF out.nil THEN NilRecord ELSE out.rec,
                      err |-> out.err, panic |-> out.panic,
                      sample |-> out.rec, mmap |-> recordMmap]
    IN  CASE hdr.Type = RecordTypeMmap ->
                 mm(parseMmap(e, recordMmap, bd, hdr, FALSE))
          [] hdr.Type = RecordTypeLost -> keep(parseLost(e, bd, hdr))
          [] hdr.Type = RecordTypeComm -> keep(parseComm(e, bd, hdr))
          [] hdr.Type = RecordTypeExit -> keep(parseExit(e, bd, hdr))
          [] hdr.Type = RecordTypeThrottle ->
                 keep(parseThrottle(e, bd, hdr, TRUE))
          [] hdr.Type = RecordTypeUnthrottle ->
                 keep(parseThrottle(e, bd, hdr, FALSE))
          [] hdr.Type = RecordTypeFork -> keep(parseFork(e, bd, hdr))
          [] hdr.Type = RecordTypeSample ->
                 sm(parseSample(e, recordSample, bd, hdr))
          [] hdr.Type = recordTypeMmap2 ->
                 mm(parseMmap(e, recordMmap, bd, hdr, TRUE))
          [] OTHER ->
                 keep([rec |-> [kind |-> "Unknown", hdr |-> hdr],
                       err |-> e, panic |-> FALSE])

\* the payload length without the header's 8 bytes taken off
payloadLenWhole(hdr) == hdr.Size % Uint16Mod

\* the payload length Next computes from the header (line 70)
payloadLen(hdr) == (hdr.Size - HdrSize) % Uint16Mod

\* r.err after the read of the header failed with rerr (lines 63-65)
headerErr(e, rerr) == IF rerr # ErrEOF THEN rerr ELSE e

\* the payload's read failure treated as the header's: io.EOF is no error
payloadErrEOFClean(e, rerr) == IF rerr # ErrEOF THEN rerr ELSE e

\* r.err after the read of the payload failed with rerr (line 76)
payloadErr(e, rerr) == rerr

\* Next without the check of r.err at its start: it reads the next header
NextFailedReadsOn ==
    /\ ~panicked
    /\ err # NoErr
    /\ ret' = FALSE
    /\ nread' = IF srEOF THEN 0 ELSE HdrSize
    /\ last' = NoInput
    /\ UNCHANGED <<attrs, idToAttr, idOffset, srEOF, err, Record,
                   recordSample, recordMmap, panicked>>

\* Next once the iterator has failed (lines 56-58)
NextFailed ==
    /\ ~panicked
    /\ err # NoErr
    /\ ret' = FALSE
    /\ nread' = 0
    /\ last' = NoInput
    /\ UNCHANGED <<attrs, idToAttr, idOffset, srEOF, err, Record,
                   recordSample, recordMmap, panicked>>

\* Next on a source that holds the bytes of in (lines 60-119).  Each value
\* is bound once, as the one element of a set.
NextRead(in) ==
    /\ ~panicked
    /\ err = NoErr
    /\ last' = in
    /\ UNCHANGED <<attrs, idToAttr, idOffset>>
    /\ \E src \in {Encode(in)} : \E h \in {ReadFull(src, HdrSize)} :
       IF h.err # NoErr
       THEN /\ err' = headerErr(err, h.err)
            /\ ret' = FALSE
            /\ nread' = Len(h.data)
            /\ srEOF' = TRUE
            /\ UNCHANGED <<Record, recordSample, recordMmap, panicked>>
       ELSE \E hdr \in {decodeHeader(h.data)} :
            \E p \in {ReadFull(SubSeq(src, HdrSize + 1, Len(src)),
                               payloadLen(hdr))} :
            IF p.err # NoErr
            THEN /\ err' = payloadErr(err, p.err)
                 /\ ret' = FALSE
                 /\ nread' = HdrSize + Len(p.data)
                 /\ srEOF' = TRUE
                 /\ UNCHANGED <<Record, recordSample, recordMmap, panicked>>
            ELSE \E out \in {dispatch(err, hdr, NewDecoder(p.data))} :
                 IF out.panic
                 THEN /\ panicked' = TRUE
                      /\ err' = out.err
                      /\ nread' = HdrSize + payloadLen(hdr)
                      /\ UNCHANGED <<srEOF, ret, Record, recordSample,
                                     recordMmap>>
                 ELSE /\ Record' = out.rec
                      /\ recordSample' = out.sample
                      /\ recordMmap' = out.mmap
                      /\ err' = out.err
                      /\ ret' = (out.err = NoErr)
                      /\ nread' = HdrSize + payloadLen(hdr)
                      /\ UNCHANGED <<srEOF, panicked>>

Init == InitOn(FramingFiles)

Next ==
    \/ NextFailed
    \/ \E in \in Inputs : NextRead(in)

\* the iterator over records of every type, whole and cut short
Spec == Init /\ [][Next]_vars

InitSample == InitOn(SingleFiles \cup MultiFiles)

NextSample ==
    \/ NextFailed
    \/ \E in \in InputsSample : NextRead(in)

\* the iterator over the samples of files of every layout
SpecSample == InitSample /\ [][NextSample]_vars

---------------------------------------------------------------------------
(* What the inputs hold, for the properties *)

Known(id) == id \in DOMAIN idToAttr

Lookup(id) == IF Known(id) THEN idToAttr[id] ELSE NilAttr

\* the last call decoded a whole record from its input
Returned == ~panicked /\ last.k \notin {"none", "eof", "partial"}

\* the last call decoded a sample of an attribute the file knows
SampleDone == ~panicked /\ last.k = "sample" /\ Known(last.id)

SampleAttr == attrs[idToAttr[last.id]]

\* the header of a raw input
RawHeader(in) == [Type |-> in.type, Misc |-> in.misc, Size |-> in.size]

KnownTypes ==
    {RecordTypeMmap, RecordTypeLost, RecordTypeComm, RecordTypeExit,
     RecordTypeThrottle, RecordTypeUnthrottle, RecordTypeFork,
     RecordTypeSample, recordTypeMmap2}

ExpectedRead(in, f) ==
    [i \in 1..Len(in.rids) |->
        [Value       |-> V(in, 96 + 3 * i),
         TimeEnabled |-> IF "TotalTimeEnabled" \in f THEN V(in, 97 + 3 * i) ELSE 0,
         TimeRunning |-> IF "TotalTimeRunning" \in f THEN V(in, 98 + 3 * i) ELSE 0,
         EventAttr   |-> IF "ID" \in f THEN Lookup(in.rids[i]) ELSE NilAttr]]

ExpectedCallchain(in) == [i \in 1..in.n |-> V(in, 32 + i)]

ExpectedBranchStack(in) ==
    [i \in 1..in.n |-> [From  |-> V(in, 64 + 3 * i),
                        To    |-> V(in, 65 + 3 * i),
                        Flags |-> V(in, 66 + 3 * i)]]

ExpectedRegs(in, ea) == [i \in 1..weight(ea.SampleRegsUser) |-> V(in, 48 + i)]

ExpectedStackUser(in) == [i \in 1..in.n |-> 16 * in.n + i]

\* the ids a lost, throttle or sample input refers to, in the order in which
\* the decoder looks them up
RefIds(in) ==
    CASE in.k = "words" /\ in.type = RecordTypeLost -> <<in.words[1]>>
      [] in.k = "words" -> <<in.words[2]>>
      [] in.k = "sample" /\ ~Known(in.id) -> <<in.id>>
      [] in.k = "sample" ->
             IF "Read" \in attrs[idToAttr[in.id]].SampleFormat
                /\ "ID" \in attrs[idToAttr[in.id]].ReadFormat
             THEN <<in.id>> \o in.rids ELSE <<in.id>>
      [] OTHER -> <<>>

UnknownRefs(in) == SelectSeq(RefIds(in), LAMBDA id : ~Known(id))

---------------------------------------------------------------------------
(* The framing and the errors of the iterator: specification Spec *)

\* C1: once the iterator holds an error, every later Next call returns
\* false, reads no byte from the source and leaves the error as it is.
C1_StickyFailure ==
    [][err # NoErr => (ret' = FALSE /\ nread' = 0 /\ err' = err)]_vars

\* a Next call was made on the failed iterator
C1_Witness == err # NoErr /\ last = NoInput /\ ret = FALSE /\ nread = 0

\* C2 (as claimed): a header whose size is below 8 fails the call, which
\* returns false with an error and reads no payload byte.
C2_SmallSizeFails ==
    (last.k = "raw" /\ last.size < HdrSize)
        => (~panicked /\ ret = FALSE /\ err # NoErr /\ nread = HdrSize)

\* C4: a Next call returns false and leaves the error nil exactly when the
\* source held no byte where the header was expected; a partial header, and
\* a payload shorter than the header declares (or absent), return false
\* with an error.
C4_EndOfStream ==
    (~panicked /\ last.k # "none") =>
        /\ (ret = FALSE /\ err = NoErr) <=> (Len(Encode(last)) = 0)
        /\ last.k = "partial" => (ret = FALSE /\ err # NoErr)
        /\ (last.k = "raw" /\ last.n < payloadLen(RawHeader(last)))
               => (ret = FALSE /\ err # NoErr)

\* a header that declares 8 payload bytes, none of which is there
C4_Witness ==
    /\ last.k = "raw" /\ last.size = 16 /\ last.n = 0
    /\ ret = FALSE /\ err = ErrEOF /\ nread = HdrSize

\* C5: a lost, throttle or sample record (its read-format block included)
\* that refers to an id the file does not know makes Next return false with
\* an error; the lookup does not panic.
C5_UnknownAttrFatal ==
    (last.k \in {"words", "sample"} /\ UnknownRefs(last) # <<>>)
        => (~panicked /\ ret = FALSE
            /\ \E id \in 0..9 : err = ErrUnknownAttr(id))

\* a sample of a known attribute whose read-format block holds an unknown id
C5_Witness ==
    /\ SampleDone /\ UnknownRefs(last) # <<>>
    /\ ret = FALSE /\ err = ErrUnknownAttr(9)

\* C6 (as claimed): lost and throttle records both take the attribute id
\* from the payload word at offset 0 and their other fields from the words
\* after it.
C6_IdFirst ==
    (~panicked /\ last.k = "words") =>
        /\ Record.EventAttr = Lookup(last.words[1])
        /\ last.type = RecordTypeLost => Record.NumLost = last.words[2]
        /\ last.type # RecordTypeLost =>
               (Record.Time = last.words[2] /\ Record.StreamID = last.words[3])

\* C6 (amended): a lost record takes the attribute id from the payload word
\* at offset 0 and the lost count from the next; a throttle or unthrottle
\* record takes the time from the word at offset 0, the attribute id from
\* the word at offset 8 and the stream id from the word at offset 16.
C6_LostIdFirstThrottleIdSecond ==
    (~panicked /\ last.k = "words") =>
        /\ last.type = RecordTypeLost =>
               /\ Record.kind = "Lost"
               /\ Record.EventAttr = Lookup(last.words[1])
               /\ Record.NumLost = last.words[2]
        /\ last.type # RecordTypeLost =>
               /\ Record.kind = "Throttle"
               /\ Record.Enable = (last.type = RecordTypeThrottle)
               /\ Record.Time = last.words[1]
               /\ Record.EventAttr = Lookup(last.words[2])
               /\ Record.StreamID = last.words[3]

\* a throttle record decoded with the id of its second word
C6_Witness ==
    /\ ~panicked /\ ret /\ last.k = "words" /\ last.type = RecordTypeThrottle
    /\ last.words = <<1, 2, 700>>
    /\ Record.Time = 1 /\ Record.EventAttr = 2 /\ Record.StreamID = 700

\* C7 (as claimed): the error Err returns is the first one the iterator
\* met, also when a later lookup of the same Next call fails.
C7_FirstError ==
    (~panicked /\ last.k \in {"words", "sample"} /\ UnknownRefs(last) # <<>>)
        => Err = ErrUnknownAttr(Head(UnknownRefs(last)))

\* C9: a whole record of a type that is not modelled, of size S >= 8, makes
\* Next return true with no error; the record is the Unknown variant with
\* the header read, and the call consumes the header and S-8 payload bytes.
C9_UnknownKind ==
    (/\ last.k = "raw" /\ last.type \notin KnownTypes
     /\ last.size >= HdrSize /\ last.n = last.size - HdrSize)
        => /\ ~panicked /\ ret = TRUE /\ Err = NoErr
           /\ Record = [kind |-> "Unknown", hdr |-> RawHeader(last)]
           /\ nread = last.size

\* an unknown record with no payload, and one with a payload
C9_Witness ==
    /\ last.k = "raw" /\ last.type = RecordTypeRead /\ last.size = 16
    /\ last.n = 8 /\ ret /\ Record.kind = "Unknown" /\ nread = 16

---------------------------------------------------------------------------
(* The sample decoder: specification SpecSample *)

\* C3 (as claimed): a sample decoded with success holds, in each optional
\* field whose bit is set, the value of the current record, and in each whose
\* bit is clear the zero or empty value, whatever was decoded before.
C3_ClearFieldsZero ==
    (SampleDone /\ ret) =>
        LET t  == SampleAttr.SampleFormat
            o  == recordSample
            on(bit, v, zero) == IF bit \in t THEN v ELSE zero
        IN  /\ Record = o
            /\ o.IP = on("IP", V(last, 1), 0)
            /\ o.PID = on("TID", V(last, 2), 0)
            /\ o.TID = on("TID", V(last, 3), 0)
            /\ o.Time = on("Time", V(last, 4), 0)
            /\ o.Addr = on("Addr", V(last, 5), 0)
            /\ o.StreamID = on("StreamID", V(last, 6), 0)
            /\ o.CPU = on("CPU", V(last, 7), 0)
            /\ o.Res = on("CPU", V(last, 8), 0)
            /\ o.Period = on("Period", V(last, 9), 0)
            /\ o.Weight = on("Weight", V(last, 10), 0)
            /\ o.DataSrc = on("DataSrc", decodeDataSrc(V(last, 11)), ZeroDataSrc)
            /\ o.Transaction = on("Transaction", V(last, 12), 0)
            /\ o.AbortCode = 0
            /\ Elems(o.SampleRead)
                   = on("Read", ExpectedRead(last, SampleAttr.ReadFormat), <<>>)
            /\ Elems(o.Callchain) = on("Callchain", ExpectedCallchain(last), <<>>)
            /\ Elems(o.BranchStack)
                   = on("BranchStack", ExpectedBranchStack(last), <<>>)
            /\ Elems(o.Regs) = on("RegsUser", ExpectedRegs(last, SampleAttr), <<>>)
            /\ Elems(o.StackUser) = on("StackUser", ExpectedStackUser(last), <<>>)

\* C8: the call-chain of a decoded sample has the length its record declares
\* and holds the addresses of that record in order, also when the sample
\* before had a longer one; it is empty when the callchain bit is clear.
C8_CallchainExact ==
    (SampleDone /\ ret) =>
        /\ Record = recordSample
        /\ "Callchain" \in SampleAttr.SampleFormat =>
               /\ recordSample.Callchain.len = last.n
               /\ Elems(recordSample.Callchain) = ExpectedCallchain(last)
        /\ "Callchain" \notin SampleAttr.SampleFormat =>
               Elems(recordSample.Callchain) = <<>>

\* a call-chain decoded into the storage of a longer one
C8_Witness ==
    /\ SampleDone /\ ret /\ "Callchain" \in SampleAttr.SampleFormat
    /\ last.n = 1 /\ recordSample.Callchain.len = 1
    /\ Len(recordSample.Callchain.arr) > 1

\* C10: the read-format block has one entry, read as value, time enabled,
\* time running, id, when the group bit is clear, and as many entries as its
\* leading count says, each read as time enabled, time running, value, id,
\* when it is set; a field whose bit is clear takes no bytes (the fields
\* after the block are those of the record) and is zero or nil.
C10_ReadFormatOrder ==
    (SampleDone /\ "Read" \in SampleAttr.SampleFormat) =>
        /\ Elems(recordSample.SampleRead)
               = ExpectedRead(last, SampleAttr.ReadFormat)
        /\ "Group" \notin SampleAttr.ReadFormat => recordSample.SampleRead.len = 1
        /\ "Callchain" \in SampleAttr.SampleFormat =>
               Elems(recordSample.Callchain) = ExpectedCallchain(last)
        /\ "Weight" \in SampleAttr.SampleFormat =>
               recordSample.Weight = V(last, 10)

\* a grouped block of two entries with both times and the id
C10_Witness ==
    /\ SampleDone /\ ret /\ "Read" \in SampleAttr.SampleFormat
    /\ SampleAttr.ReadFormat
           = {"Group", "TotalTimeEnabled", "TotalTimeRunning", "ID"}
    /\ recordSample.SampleRead.len = 2
    /\ recordSample.SampleRead.arr[2].TimeEnabled = V(last, 103)
    /\ recordSample.SampleRead.arr[2].Value = V(last, 102)

=============================================================================
